---- MODULE Spec2Model ----
(***************************************************************************)
(* A model of streamlit_app.py, the MaLDReTH Streamlit application: the    *)
(* SQLite store (stages, connections, tool_categories, tools), its one-    *)
(* time initialisation from resources/schema.sql and resources/tools.csv,  *)
(* the read queries, the search and the lifecycle figure.                  *)
(*                                                                         *)
(* Strings are sequences of one-character strings, so that strip, split,   *)
(* the f-string concatenation, ORDER BY and LIKE are computed character by *)
(* character.                                                              *)
(***************************************************************************)
EXTENDS Integers, Sequences, FiniteSets, TLC

VARIABLES
    files,      \* the paths that exist on disk
    schema,     \* what resources/schema.sql inserts: [stages, connections]
    csv,        \* resources/tools.csv: [cols, rows], rows of raw cell text
    db,         \* the database file's content: [tables, stages, connections,
                \*   tool_categories, tools]
    conn,       \* st.cache_resource of get_connection: "none" | "open"
    errors,     \* the st.error messages shown so far
    result,     \* what the last call returned (or that it raised)
    calls       \* [restarts, imports]: process restarts and direct imports

vars == <<files, schema, csv, db, conn, errors, result, calls>>

---------------------------------------------------------------------------
(* Bounds of the model *)

\* rows of the CSV file
MaxRows == 2
\* stages the schema script inserts
MaxStages == 2
\* process restarts (each clears Streamlit's caches)
MaxRestarts == 1
\* direct calls of import_tool_data on the existing store
MaxImports == 1

---------------------------------------------------------------------------
(* Characters and strings *)

UpperCase ==
    <<"A","B","C","D","E","F","G","H","I","J","K","L","M",
      "N","O","P","Q","R","S","T","U","V","W","X","Y","Z">>

LowerCase ==
    <<"a","b","c","d","e","f","g","h","i","j","k","l","m",
      "n","o","p","q","r","s","t","u","v","w","x","y","z">>

IndexIn(seq, c) == CHOOSE i \in 1..Len(seq) : seq[i] = c

IsUpper(c) == \E i \in 1..Len(UpperCase) : UpperCase[i] = c

IsLower(c) == \E i \in 1..Len(LowerCase) : LowerCase[i] = c

\* The byte value of a character (ASCII), as SQLite's BINARY collation
\* compares it.
Ord(c) ==
    IF IsUpper(c) THEN 64 + IndexIn(UpperCase, c)
    ELSE IF IsLower(c) THEN 96 + IndexIn(LowerCase, c)
    ELSE CASE c = " " -> 32
           [] c = "%" -> 37
           [] c = "," -> 44
           [] c = "_" -> 95

\* ASCII case folding, as SQLite's LIKE folds it.
ToLower(c) == IF IsUpper(c) THEN LowerCase[IndexIn(UpperCase, c)] ELSE c

LowerStr(s) == [i \in 1..Len(s) |-> ToLower(s[i])]

IsSpace(c) == c = " "

RECURSIVE LStrip(_)
LStrip(s) ==
    IF s # <<>> /\ IsSpace(Head(s)) THEN LStrip(Tail(s)) ELSE s

RECURSIVE RStrip(_)
RStrip(s) ==
    IF s # <<>> /\ IsSpace(s[Len(s)])
    THEN RStrip(SubSeq(s, 1, Len(s) - 1))
    ELSE s

\* str.strip()
Strip(s) == RStrip(LStrip(s))

\* str.split(','): the pieces between the commas, empty pieces kept;
\* ''.split(',') is [''].
RECURSIVE SplitFrom(_, _, _)
SplitFrom(s, i, cur) ==
    IF i > Len(s) THEN <<cur>>
    ELSE IF s[i] = "," THEN <<cur>> \o SplitFrom(s, i + 1, <<>>)
    ELSE SplitFrom(s, i + 1, Append(cur, s[i]))

Split(s) == SplitFrom(s, 1, <<>>)

\* q occurs in s as a contiguous substring
Contains(s, q) ==
    \E i \in 1..(Len(s) - Len(q) + 1) : SubSeq(s, i, i + Len(q) - 1) = q

\* SQLite's LIKE: % matches any run of characters, _ exactly one character,
\* any other character itself, ASCII letters without regard to case.
RECURSIVE Like(_, _)
Like(pat, s) ==
    IF pat = <<>> THEN s = <<>>
    ELSE IF Head(pat) = "%"
         THEN \E k \in 0..Len(s) : Like(Tail(pat), SubSeq(s, k + 1, Len(s)))
    ELSE IF s = <<>> THEN FALSE
    ELSE IF Head(pat) = "_" THEN Like(Tail(pat), Tail(s))
    ELSE ToLower(Head(pat)) = ToLower(Head(s)) /\ Like(Tail(pat), Tail(s))

\* Lexicographic order of integer sequences, a proper prefix first.
RECURSIVE SeqLeq(_, _)
SeqLeq(a, b) ==
    IF a = <<>> THEN TRUE
    ELSE IF b = <<>> THEN FALSE
    ELSE IF Head(a) < Head(b) THEN TRUE
    ELSE IF Head(a) > Head(b) THEN FALSE
    ELSE SeqLeq(Tail(a), Tail(b))

\* A TEXT value as a sort key: its bytes.
TextKey(s) == [i \in 1..Len(s) |-> Ord(s[i])]

\* ORDER BY over a set of [k |-> key, r |-> row]: every sequence of the
\* rows in key order; SQLite leaves the order of rows with equal keys open.
RECURSIVE OrderBy(_)
OrderBy(S) ==
    IF S = {} THEN {<<>>}
    ELSE UNION { { <<m.r>> \o rest : rest \in OrderBy(S \ {m}) } :
                 m \in { x \in S : \A y \in S : SeqLeq(x.k, y.k) } }

\* The elements of a sequence that satisfy nothing but membership: its range.
Range(seq) == { seq[i] : i \in 1..Len(seq) }

---------------------------------------------------------------------------
(* Paths and fixed texts *)

ResourcesDb == "resources/research_data_lifecycle.db"

LocalDb == "research_data_lifecycle.db"

SchemaPath == "resources/schema.sql"

CsvPath == "resources/tools.csv"

ColStage == "RESEARCH DATA LIFECYCLE STAGE"

ColCategory == "TOOL CATEGORY TYPE"

ColDescription == "DESCRIPTION (1 SENTENCE)"

ColExamples == "EXAMPLES"

AllCols == {ColStage, ColCategory, ColDescription, ColExamples}

\* f"Example tool for {category_name}"
ExampleToolFor ==
    <<"E","x","a","m","p","l","e"," ","t","o","o","l"," ","f","o","r"," ">>

\* The first stages of the lifecycle, in order (the About page's list).
StageNames ==
    << <<"C","o","n","c","e","p","t","u","a","l","i","s","e">>,
       <<"P","l","a","n">>,
       <<"F","u","n","d">>,
       <<"C","o","l","l","e","c","t">> >>

---------------------------------------------------------------------------
(* The store *)

\* A database file that sqlite3.connect has just created: no table at all.
EmptyDb ==
    [tables |-> FALSE, stages |-> <<>>, connections |-> <<>>,
     tool_categories |-> <<>>, tools |-> <<>>]

\* The stage rows the schema script inserts: n stages, ids from base on,
\* order_index their place in the lifecycle.
SchemaStages(n, base) ==
    [i \in 1..n |-> [id |-> base + i - 1, name |-> StageNames[i],
                     order_index |-> i]]

\* The connection rows the schema script inserts: each stage to the next
\* (normal) and, with two stages or more, the last back to the first
\* (alternative).
SchemaConnections(n, base) ==
    [i \in 1..(n - 1) |->
        [from_stage_id |-> base + i - 1, to_stage_id |-> base + i,
         connection_type |-> "normal"]]
    \o (IF n >= 2
        THEN << [from_stage_id |-> base + n - 1, to_stage_id |-> base,
                 connection_type |-> "alternative"] >>
        ELSE <<>>)

\* conn.executescript(schema_script): the four tables, with the stage and
\* connection rows of the script.
ExecuteSchema(d) ==
    [d EXCEPT !.tables = TRUE,
              !.stages = d.stages \o schema.stages,
              !.connections = d.connections \o schema.connections]

---------------------------------------------------------------------------
(* pd.read_csv and the row accessors *)

NaN == [nan |-> TRUE, s |-> <<>>]

StrCell(s) == [nan |-> FALSE, s |-> s]

\* pd.read_csv: an empty field is NaN (a float), any other field its text.
ReadCsvCell(raw) == IF raw = <<>> THEN NaN ELSE StrCell(raw)

\* row.get(col, ''): the parsed cell, or '' when the file has no such column.
RowGet(row, col) ==
    IF col \in csv.cols THEN ReadCsvCell(row[col]) ELSE StrCell(<<>>)

---------------------------------------------------------------------------
(* import_tool_data *)

\* The open transaction of import_tool_data's connection: the two tables as
\* the inserts so far leave them, the connection's last insert rowid (0 on a
\* fresh connection) and whether an exception has left the loop.
BeginTx(d) ==
    [tool_categories |-> d.tool_categories, tools |-> d.tools,
     last |-> 0, raised |-> FALSE]

\* INSERT INTO tool_categories: the next rowid is the new row's id.
InsertCategory(tx, stage_id, name, description) ==
    LET id == Len(tx.tool_categories) + 1
    IN  [tx EXCEPT !.tool_categories =
                       Append(@, [id |-> id, stage_id |-> stage_id,
                                  name |-> name, description |-> description]),
                   !.last = id]

\* INSERT INTO tools
InsertTool(tx, category_id, name, description) ==
    LET id == Len(tx.tools) + 1
    IN  [tx EXCEPT !.tools =
                       Append(@, [id |-> id, category_id |-> category_id,
                                  name |-> name, description |-> description]),
                   !.last = id]

\* for tool_name in tools.split(','): strip it; insert it when not empty.
RECURSIVE InsertTools(_, _, _, _)
InsertTools(tx, category_id, category_name, entries) ==
    IF entries = <<>> THEN tx
    ELSE LET tool_name == Strip(Head(entries))
             next == IF tool_name # <<>>
                     THEN InsertTool(tx, category_id, tool_name,
                                     ExampleToolFor \o category_name)
                     ELSE tx
         IN  InsertTools(next, category_id, category_name, Tail(entries))

\* cursor.lastrowid of the cursor that ran the SELECT on stages: sqlite3 sets
\* it, as the SELECT executes, to the connection's last insert rowid.
SelectCursorLastRowId(tx) == tx.last

\* One pass of the loop body. Each .strip() of a NaN cell raises
\* AttributeError; the SELECT raises when the file has no stages table.
ImportRow(d, tx, row) ==
    LET stageCell == RowGet(row, ColStage)
        categoryCell == RowGet(row, ColCategory)
        descriptionCell == RowGet(row, ColDescription)
        toolsCell == RowGet(row, ColExamples)
    IN  IF stageCell.nan \/ categoryCell.nan \/ descriptionCell.nan
           \/ toolsCell.nan
        THEN [tx EXCEPT !.raised = TRUE]
        ELSE
        LET stage_name == Strip(stageCell.s)
            category_name == Strip(categoryCell.s)
            description == Strip(descriptionCell.s)
            tools == Strip(toolsCell.s)
        IN  IF stage_name = <<>> \/ category_name = <<>> THEN tx
            ELSE IF ~d.tables THEN [tx EXCEPT !.raised = TRUE]
            ELSE
            LET found == { i \in 1..Len(d.stages) :
                             d.stages[i].name = stage_name }
            IN  IF found = {} THEN tx
                ELSE
                LET stage_id ==
                        d.stages[CHOOSE i \in found :
                                    \A j \in found : i <= j].id
                    category_id == SelectCursorLastRowId(tx)
                    withCategory ==
                        InsertCategory(tx, stage_id, category_name, description)
                IN  InsertTools(withCategory, category_id, category_name,
                                Split(tools))

\* for _, row in df.iterrows(): the rows in order, up to the first exception.
RECURSIVE ImportRows(_, _, _)
ImportRows(d, tx, rows) ==
    IF rows = <<>> \/ tx.raised THEN tx
    ELSE ImportRows(d, ImportRow(d, tx, Head(rows)), Tail(rows))

\* As EndTx, the connection committing whatever the block has inserted.
EndTxCommit(d, tx) ==
    [d EXCEPT !.tool_categories = tx.tool_categories, !.tools = tx.tools]

\* Leaving "with sqlite3.connect(db_path) as conn": the connection commits
\* when the block ends normally and rolls back when an exception leaves it.
EndTx(d, tx) ==
    IF tx.raised THEN d
    ELSE [d EXCEPT !.tool_categories = tx.tool_categories,
                   !.tools = tx.tools]

\* import_tool_data(db_path, csv_path) on a store with content d: the content
\* after it, and whether st.error was called. pd.read_csv raises when the
\* file is missing.
ImportToolData(d, fs) ==
    IF CsvPath \notin fs THEN [db |-> d, error |-> TRUE, connected |-> FALSE]
    ELSE LET tx == ImportRows(d, BeginTx(d), csv.rows)
         IN  [db |-> EndTx(d, tx), error |-> tx.raised, connected |-> TRUE]

---------------------------------------------------------------------------
(* init_database and get_connection *)

\* db_path: the resources folder's file when it exists, else the local one.
DbPath(fs) == IF ResourcesDb \in fs THEN ResourcesDb ELSE LocalDb

\* As NeedsInit, without the test for the file: initialise on every start.
NeedsInitAlways(db_path, fs) == TRUE

\* "if not os.path.exists(db_path)"
NeedsInit(db_path, fs) == db_path \notin fs

\* init_database(db_path) on a file with content d (EmptyDb when there is
\* none yet): the files, the content and the st.error messages after it.
InitDatabase(db_path, d, fs) ==
    IF SchemaPath \notin fs
    THEN [files |-> fs, db |-> d, errors |-> <<"Schema file not found">>]
    ELSE LET created == ExecuteSchema(d)
         IN  IF CsvPath \in fs
             THEN LET r == ImportToolData(created, fs)
                  IN  [files |-> fs \cup {db_path}, db |-> r.db,
                       errors |-> IF r.error
                                  THEN <<"Error importing tool data">>
                                  ELSE <<>>]
             ELSE [files |-> fs \cup {db_path}, db |-> created,
                   errors |-> <<>>]

\* The body of get_connection (a cache miss of st.cache_resource):
\* initialise when the file is absent, then sqlite3.connect, which creates
\* the file when it is still absent.
GetConnection ==
    LET db_path == DbPath(files)
    IN  IF NeedsInit(db_path, files)
        THEN LET r == InitDatabase(db_path, db, files)
             IN  [files |-> r.files \cup {db_path}, db |-> r.db,
                  errors |-> errors \o r.errors]
        ELSE [files |-> files, db |-> db, errors |-> errors]

\* get_connection(): the cached connection, or the body's effect.
Connected ==
    IF conn = "open"
    THEN [files |-> files, db |-> db, errors |-> errors]
    ELSE GetConnection

---------------------------------------------------------------------------
(* The read queries *)

\* An optional integer argument: None, or the integer v.
None == [none |-> TRUE, v |-> 0]

Some(v) == [none |-> FALSE, v |-> v]

\* Python's truth value of an optional integer: None and 0 are false.
Truthy(arg) == ~arg.none /\ arg.v # 0

\* SELECT * FROM stages ORDER BY order_index
StagesQuery(d) ==
    OrderBy({ [k |-> <<r.order_index>>, r |-> r] : r \in Range(d.stages) })

\* SELECT * FROM connections: the rows as the table holds them.
ConnectionsQuery(d) == {d.connections}

\* "if stage_id:" the filtered query, else the unfiltered one.
ToolCategoriesQuery(d, stage_id) ==
    IF Truthy(stage_id)
    THEN OrderBy({ [k |-> TextKey(r.name), r |-> r] :
                   r \in { c \in Range(d.tool_categories) :
                             c.stage_id = stage_id.v } })
    ELSE OrderBy({ [k |-> <<r.stage_id>> \o TextKey(r.name), r |-> r] :
                   r \in Range(d.tool_categories) })

\* "if category_id:" the filtered query, else the unfiltered one.
ToolsQuery(d, category_id) ==
    IF Truthy(category_id)
    THEN OrderBy({ [k |-> TextKey(r.name), r |-> r] :
                   r \in { t \in Range(d.tools) :
                             t.category_id = category_id.v } })
    ELSE OrderBy({ [k |-> <<r.category_id>> \o TextKey(r.name), r |-> r] :
                   r \in Range(d.tools) })

\* f"%{query}%"
SearchPattern(query) == <<"%">> \o query \o <<"%">>

\* The search's SELECT: tools joined with their category and its stage,
\* name or description LIKE the pattern, ordered by stage order, category
\* name, tool name.
SearchQuery(d, query) ==
    LET pat == SearchPattern(query)
        joined ==
            { [t |-> t, c |-> c, s |-> s] :
                t \in Range(d.tools), c \in Range(d.tool_categories),
                s \in Range(d.stages) }
        hits ==
            { j \in joined :
                /\ j.t.category_id = j.c.id
                /\ j.c.stage_id = j.s.id
                /\ (Like(pat, j.t.name) \/ Like(pat, j.t.description)) }
    IN  OrderBy({ [k |-> <<j.s.order_index>> \o TextKey(j.c.name) \o <<0>>
                         \o TextKey(j.t.name),
                   r |-> [id |-> j.t.id, category_id |-> j.c.id,
                          name |-> j.t.name,
                          description |-> j.t.description,
                          category_name |-> j.c.name,
                          stage_name |-> j.s.name,
                          stage_id |-> j.s.id]] : j \in hits })

---------------------------------------------------------------------------
(* create_lifecycle_visualization; coordinates are in tenths *)

\* radius = 1
Radius == 1

RECURSIVE Pow(_, _)
Pow(b, e) == IF e = 0 THEN 1 ELSE b * Pow(b, e - 1)

\* radius * 0.8 * -1 * (-1) ** (i % 2), in tenths
XPosition(i) == Radius * 8 * (-1) * Pow(-1, i % 2)

\* As YPosition, the parity taken one index late.
YPositionOffByOne(i) == Radius * 10 * Pow(-1, (i + 1) % 2)

\* radius * (-1) ** (i % 2), in tenths
YPosition(i) == Radius * 10 * Pow(-1, i % 2)

\* [f(i) for i in range(n_stages)]: element k + 1 here is Python's index k.
XPositions(n_stages) == [k \in 1..n_stages |-> XPosition(k - 1)]

YPositions(n_stages) == [k \in 1..n_stages |-> YPosition(k - 1)]

\* Python's list[k]: a negative k counts from the end, anything outside
\* -len..len-1 raises IndexError.
PyInRange(list, k) == -Len(list) <= k /\ k < Len(list)

PyIndex(list, k) == IF k >= 0 THEN list[k + 1] ELSE list[Len(list) + k + 1]

\* "if from_id < n_stages and to_id < n_stages"
WithinBounds(from_id, to_id, n_stages) ==
    from_id < n_stages /\ to_id < n_stages

\* The line trace of one connection.
LineTrace(connection, from_id, to_id, xs, ys) ==
    [mode |-> "lines",
     x |-> <<PyIndex(xs, from_id), PyIndex(xs, to_id)>>,
     y |-> <<PyIndex(ys, from_id), PyIndex(ys, to_id)>>,
     dash |-> IF connection.connection_type = "alternative"
              THEN "dash" ELSE "solid"]

\* "for conn in connections": the line traces in order; raised when an
\* index raises IndexError.
RECURSIVE AddConnections(_, _, _, _)
AddConnections(fig, connections, xs, ys) ==
    IF connections = <<>> \/ fig.raised THEN fig
    ELSE LET connection == Head(connections)
             from_id == connection.from_stage_id - 1
             to_id == connection.to_stage_id - 1
             next ==
                 IF WithinBounds(from_id, to_id, Len(xs))
                 THEN IF PyInRange(xs, from_id) /\ PyInRange(xs, to_id)
                      THEN [fig EXCEPT !.traces =
                               Append(@, LineTrace(connection, from_id,
                                                   to_id, xs, ys))]
                      ELSE [fig EXCEPT !.raised = TRUE]
                 ELSE fig
         IN  AddConnections(next, Tail(connections), xs, ys)

\* The node trace of the stage at index i (0-based).
NodeTrace(stage, i, xs, ys, selected_stage) ==
    [mode |-> "markers+text",
     x |-> <<PyIndex(xs, i)>>,
     y |-> <<PyIndex(ys, i)>>,
     size |-> IF Truthy(selected_stage) /\ stage.id = selected_stage.v
              THEN 30 ELSE 25,
     name |-> stage.name]

\* create_lifecycle_visualization(stages, connections, selected_stage): the
\* figure's traces, the lines first and then one node per stage.
CreateLifecycleVisualization(stages, connections, selected_stage) ==
    LET n_stages == Len(stages)
        xs == XPositions(n_stages)
        ys == YPositions(n_stages)
        lines == AddConnections([raised |-> FALSE, traces |-> <<>>],
                                connections, xs, ys)
    IN  IF lines.raised THEN lines
        ELSE [lines EXCEPT !.traces =
                  @ \o [k \in 1..n_stages |->
                          NodeTrace(stages[k], k - 1, xs, ys, selected_stage)]]

---------------------------------------------------------------------------
(* Inputs *)

CsvRow(stage, category, description, examples) ==
    (ColStage :> stage) @@ (ColCategory :> category)
    @@ (ColDescription :> description) @@ (ColExamples :> examples)

\* The raw rows a CSV file is made of: two rows that name a stage and a
\* category (one with padded cells and an empty entry among its examples),
\* one with an empty stage cell, one with an empty category cell, and one
\* whose category cell is blank.
CsvRowChoices ==
    { CsvRow(<<"P","l","a","n">>, <<"A","c","q">>, <<"d">>, <<"T","o","o","l","A",","," ","T","o","o","l","B">>),
      CsvRow(<<" ","C","o","n","c","e","p","t","u","a","l","i","s","e"," ">>, <<" ","S","t","o">>, <<"d">>, <<"t","_","u",",">>),
      CsvRow(<<>>, <<"A","c","q">>, <<"d">>, <<"T","o","o","l","A">>),
      CsvRow(<<"P","l","a","n">>, <<>>, <<"d">>, <<"T","o","o","l","A">>),
      CsvRow(<<"P","l","a","n">>, <<" ">>, <<"d">>, <<"T","o","o","l","A">>) }

\* The header either has the four columns or lacks EXAMPLES.
ColChoices == { AllCols, AllCols \ {ColExamples} }

\* The queries typed into the search box.
QueryChoices ==
    { <<>>, <<"t">>, <<"_">>, <<"%">>, <<"O","L","A">>, <<"z">> }

\* The integers passed as stage_id, category_id or the stage URL parameter.
IdChoices == (-1)..(MaxStages + 1)

ArgChoices == {None} \cup { Some(v) : v \in IdChoices }

SeqsUpTo(S, n) == UNION { [1..k -> S] : k \in 0..n }

---------------------------------------------------------------------------
(* The state machine *)

NoCall == [fn |-> "none", arg |-> None, raised |-> FALSE, rows |-> <<>>]

Call(fn, arg, raised, rows) ==
    [fn |-> fn, arg |-> arg, raised |-> raised, rows |-> rows]

\* A fresh deployment: no database file yet; the schema script and the CSV
\* file are there or not.
Init ==
    /\ \E hasSchema \in BOOLEAN, hasCsv \in BOOLEAN :
        /\ files = (IF hasSchema THEN {SchemaPath} ELSE {})
                   \cup (IF hasCsv THEN {CsvPath} ELSE {})
        /\ IF hasSchema
           THEN \E n \in 1..MaxStages, base \in {0, 1} :
                   schema = [stages |-> SchemaStages(n, base),
                             connections |-> SchemaConnections(n, base)]
           ELSE schema = [stages |-> <<>>, connections |-> <<>>]
        /\ IF hasCsv
           THEN \E cols \in ColChoices,
                   rows \in SeqsUpTo(CsvRowChoices, MaxRows) :
                   csv = [cols |-> cols, rows |-> rows]
           ELSE csv = [cols |-> {}, rows |-> <<>>]
    /\ db = EmptyDb
    /\ conn = "none"
    /\ errors = <<>>
    /\ result = NoCall
    /\ calls = [restarts |-> 0, imports |-> 0]

\* The script is between two calls: nothing returned is being looked at.
Idle == result.fn = "none"

\* What every call of get_connection() leaves behind.
Connect(c) ==
    /\ Idle
    /\ files' = c.files
    /\ db' = c.db
    /\ errors' = c.errors
    /\ conn' = "open"

\* st.cache_data keeps each load and search function's return value per
\* argument for the life of the process. get_connection's body runs once per
\* process, before the first query, and nothing the process does afterwards
\* writes to the file, so a cached value is the value the query returns
\* again: the calls below always run the query.

\* A query on a file without the tables raises sqlite3.OperationalError.
Returns(c, fn, arg, answers) ==
    IF c.db.tables
    THEN \E rows \in answers : result' = Call(fn, arg, FALSE, rows)
    ELSE result' = Call(fn, arg, TRUE, <<>>)

\* load_stages()
LoadStages ==
    LET c == Connected
    IN  /\ Connect(c)
        /\ Returns(c, "load_stages", None, StagesQuery(c.db))
        /\ UNCHANGED <<schema, csv, calls>>

\* load_connections()
LoadConnections ==
    LET c == Connected
    IN  /\ Connect(c)
        /\ Returns(c, "load_connections", None, ConnectionsQuery(c.db))
        /\ UNCHANGED <<schema, csv, calls>>

\* load_tool_categories(stage_id)
LoadToolCategories ==
    \E stage_id \in ArgChoices :
        LET c == Connected
        IN  /\ Connect(c)
            /\ Returns(c, "load_tool_categories", stage_id,
                       ToolCategoriesQuery(c.db, stage_id))
            /\ UNCHANGED <<schema, csv, calls>>

\* load_tools(category_id)
LoadTools ==
    \E category_id \in ArgChoices :
        LET c == Connected
        IN  /\ Connect(c)
            /\ Returns(c, "load_tools", category_id,
                       ToolsQuery(c.db, category_id))
            /\ UNCHANGED <<schema, csv, calls>>

\* search_tools(query): "if not query: return []" comes before the
\* connection is asked for.
SearchTools ==
    \E query \in QueryChoices :
        IF query = <<>>
        THEN /\ Idle
             /\ result' = Call("search_tools", query, FALSE, <<>>)
             /\ UNCHANGED <<files, schema, csv, db, conn, errors, calls>>
        ELSE LET c == Connected
             IN  /\ Connect(c)
                 /\ Returns(c, "search_tools", query,
                            SearchQuery(c.db, query))
                 /\ UNCHANGED <<schema, csv, calls>>

\* render_search(): search_tools runs only for a query that is not empty.
RenderSearch ==
    \E query \in QueryChoices :
        IF query = <<>>
        THEN /\ Idle
             /\ result' = Call("render_search", query, FALSE, <<>>)
             /\ UNCHANGED <<files, schema, csv, db, conn, errors, calls>>
        ELSE LET c == Connected
             IN  /\ Connect(c)
                 /\ Returns(c, "render_search", query,
                            SearchQuery(c.db, query))
                 /\ UNCHANGED <<schema, csv, calls>>

\* render_visualization(), stage being the URL parameter (None when absent):
\* the figure of load_stages() and load_connections(), and under it the
\* selected stage's categories when the parameter is the id of a stage.
RenderVisualization ==
    \E stage \in ArgChoices :
        LET c == Connected
        IN  /\ Connect(c)
            /\ IF ~c.db.tables
               THEN result' = Call("render_visualization", stage, TRUE, <<>>)
               ELSE \E stages \in StagesQuery(c.db),
                       connections \in ConnectionsQuery(c.db) :
                      LET fig == CreateLifecycleVisualization(
                                     stages, connections, stage)
                          selected == Truthy(stage)
                                      /\ \E s \in Range(stages) :
                                            s.id = stage.v
                      IN  IF fig.raised
                          THEN result' = Call("render_visualization", stage,
                                              TRUE, <<>>)
                          ELSE \E categories \in
                                  (IF selected
                                   THEN ToolCategoriesQuery(c.db, stage)
                                   ELSE {<<>>}) :
                                 result' = Call("render_visualization", stage,
                                                FALSE,
                                                [traces |-> fig.traces,
                                                 categories |-> categories])
            /\ UNCHANGED <<schema, csv, calls>>

\* render_all_tools(), choice being the selectbox entry: 0 for "All Stages",
\* else the place of a stage in load_stages(). Each stage is shown with the
\* categories load_tool_categories(stage['id']) returns.
RenderAllTools ==
    \E choice \in 0..MaxStages :
        LET c == Connected
        IN  /\ Connect(c)
            /\ IF ~c.db.tables
               THEN result' = Call("render_all_tools", Some(choice), TRUE, <<>>)
               ELSE \E stages \in StagesQuery(c.db) :
                      /\ choice <= Len(stages)
                      /\ LET shown == IF choice = 0 THEN stages
                                      ELSE <<stages[choice]>>
                         IN  result' =
                               Call("render_all_tools", Some(choice), FALSE,
                                    [k \in 1..Len(shown) |->
                                       [stage |-> shown[k].name,
                                        categories |->
                                          UNION { Range(a) : a \in
                                            ToolCategoriesQuery(
                                               c.db, Some(shown[k].id)) }]])
            /\ UNCHANGED <<schema, csv, calls>>

\* render_about(): static text.
RenderAbout ==
    /\ Idle
    /\ result' = Call("render_about", None, FALSE, <<>>)
    /\ UNCHANGED <<files, schema, csv, db, conn, errors, calls>>

\* The process ends and a new one starts: Streamlit's caches are empty again,
\* the files stay.
Restart ==
    /\ conn = "open"
    /\ calls.restarts < MaxRestarts
    /\ conn' = "none"
    /\ result' = NoCall
    /\ calls' = [calls EXCEPT !.restarts = @ + 1]
    /\ UNCHANGED <<files, schema, csv, db, errors>>

\* The caller is done with what the call returned; the script goes on, or
\* Streamlit runs it again for the next interaction.
Rerun ==
    /\ ~Idle
    /\ result' = NoCall
    /\ UNCHANGED <<files, schema, csv, db, conn, errors, calls>>

Next ==
    \/ LoadStages
    \/ LoadConnections
    \/ LoadToolCategories
    \/ LoadTools
    \/ SearchTools
    \/ RenderSearch
    \/ RenderVisualization
    \/ RenderAllTools
    \/ RenderAbout
    \/ Restart
    \/ Rerun

Spec == Init /\ [][Next]_vars

---------------------------------------------------------------------------
(* The seed step run again: import_tool_data called on the existing store *)

\* import_tool_data(db_path, "resources/tools.csv"), called directly. The
\* broad except lets no exception out; sqlite3.connect creates the file.
DirectImport ==
    /\ Idle
    /\ calls.imports < MaxImports
    /\ LET r == ImportToolData(db, files)
       IN  /\ files' = IF r.connected THEN files \cup {DbPath(files)}
                       ELSE files
           /\ db' = r.db
           /\ errors' = errors \o (IF r.error
                                   THEN <<"Error importing tool data">>
                                   ELSE <<>>)
    /\ result' = Call("import_tool_data", None, FALSE, <<>>)
    /\ calls' = [calls EXCEPT !.imports = @ + 1]
    /\ UNCHANGED <<schema, csv, conn>>

SeedNext == LoadStages \/ DirectImport \/ Rerun

SeedSpec == Init /\ [][SeedNext]_vars

---------------------------------------------------------------------------
(* create_lifecycle_visualization as a function of its arguments *)

\* connections per call
MaxConnections == 1

\* The stage lists load_stages() can return, the empty one included.
StageLists ==
    { SchemaStages(n, base) : n \in 0..MaxStages, base \in {0, 1} }

ConnectionChoices ==
    { [from_stage_id |-> f, to_stage_id |-> t, connection_type |-> ty] :
        f \in IdChoices, t \in IdChoices, ty \in {"normal", "alternative"} }

\* The arguments of the call are drawn here; nothing else is in play.
VizInit ==
    /\ files = {}
    /\ schema = [stages |-> <<>>, connections |-> <<>>]
    /\ csv = [cols |-> {}, rows |-> <<>>]
    /\ db = EmptyDb
    /\ conn = "none"
    /\ errors = <<>>
    /\ calls = [restarts |-> 0, imports |-> 0]
    /\ \E stages \in StageLists,
          connections \in SeqsUpTo(ConnectionChoices, MaxConnections),
          selected_stage \in ArgChoices :
          result = Call("call",
                        [stages |-> stages, connections |-> connections,
                         selected_stage |-> selected_stage],
                        FALSE, <<>>)

\* create_lifecycle_visualization(stages, connections, selected_stage)
VizCall ==
    /\ result.fn = "call"
    /\ LET fig == CreateLifecycleVisualization(
                      result.arg.stages, result.arg.connections,
                      result.arg.selected_stage)
       IN  result' = Call("create_lifecycle_visualization", result.arg,
                          fig.raised, fig.traces)
    /\ UNCHANGED <<files, schema, csv, db, conn, errors, calls>>

VizNext == VizCall

VizSpec == VizInit /\ [][VizNext]_vars

---------------------------------------------------------------------------
(* What the claims speak of, read off the inputs *)

\* The text of a row's cell; empty when the file has no such column.
CellText(row, col) == IF col \in csv.cols THEN row[col] ELSE <<>>

\* An empty field of a column the file has.
EmptyField(row, col) == col \in csv.cols /\ row[col] = <<>>

HasEmptyField(row) == \E col \in AllCols : EmptyField(row, col)

\* The row names a stage of the schema and a category.
NamesStageAndCategory(row) ==
    /\ \E i \in 1..Len(schema.stages) :
          schema.stages[i].name = Strip(CellText(row, ColStage))
    /\ Strip(CellText(row, ColCategory)) # <<>>

StageIdOf(row) ==
    LET i == CHOOSE j \in 1..Len(schema.stages) :
                schema.stages[j].name = Strip(CellText(row, ColStage))
    IN  schema.stages[i].id

\* The non-empty comma-separated entries of EXAMPLES, stripped.
Entries(row) ==
    LET pieces == Split(CellText(row, ColExamples))
        stripped == [i \in 1..Len(pieces) |-> Strip(pieces[i])]
    IN  SelectSeq(stripped, LAMBDA e : e # <<>>)

\* How many of the first i rows name a stage and a category.
NamedUpTo(i) ==
    Cardinality({ j \in 1..i : NamesStageAndCategory(csv.rows[j]) })

\* get_connection has initialised the file from the schema and the CSV.
SeededFromCsv ==
    /\ conn = "open"
    /\ SchemaPath \in files
    /\ CsvPath \in files

IsImportError(e) == e = "Error importing tool data"

ToolNames(rows) == [i \in 1..Len(rows) |-> rows[i].name]

---------------------------------------------------------------------------
(* The claims *)

\* C1: after an import that reported no error, every CSV row that names an
\* existing stage and a category has its own tool_categories row (owned by
\* that stage), and the tools rows whose category_id is that row's id are
\* exactly the row's non-empty EXAMPLES entries, one each.
C1_ToolsLinkedToTheirCategory ==
    (SeededFromCsv /\ errors = <<>>) =>
        \A i \in 1..Len(csv.rows) :
            NamesStageAndCategory(csv.rows[i]) =>
                LET k == NamedUpTo(i)
                IN  /\ k <= Len(db.tool_categories)
                    /\ db.tool_categories[k].name
                          = Strip(CellText(csv.rows[i], ColCategory))
                    /\ db.tool_categories[k].stage_id = StageIdOf(csv.rows[i])
                    /\ ToolNames(SelectSeq(db.tools,
                           LAMBDA t : t.category_id = db.tool_categories[k].id))
                          = Entries(csv.rows[i])

\* C2: load_tool_categories(S.id), S a stored stage, returns only categories
\* of S, in name order; load_tools(C.id), C a stored category, returns only
\* tools of C.
C2_FilteredByOwner ==
    /\ ( /\ result.fn = "load_tool_categories"
         /\ ~result.raised
         /\ ~result.arg.none
         /\ \E s \in Range(db.stages) : s.id = result.arg.v )
       => /\ \A i \in 1..Len(result.rows) :
                result.rows[i].stage_id = result.arg.v
          /\ \A i \in 1..(Len(result.rows) - 1) :
                SeqLeq(TextKey(result.rows[i].name),
                       TextKey(result.rows[i + 1].name))
    /\ ( /\ result.fn = "load_tools"
         /\ ~result.raised
         /\ ~result.arg.none
         /\ \E c \in Range(db.tool_categories) : c.id = result.arg.v )
       => \A i \in 1..Len(result.rows) :
             result.rows[i].category_id = result.arg.v

\* C3: on a store with at least one category (tool), load_tool_categories
\* (load_tools) of an integer that is no stage's (category's) id returns
\* nothing and raises nothing.
C3_UnknownIdGivesNothing ==
    /\ ( /\ result.fn = "load_tool_categories"
         /\ ~result.arg.none
         /\ db.tool_categories # <<>>
         /\ \A s \in Range(db.stages) : s.id # result.arg.v )
       => (~result.raised /\ result.rows = <<>>)
    /\ ( /\ result.fn = "load_tools"
         /\ ~result.arg.none
         /\ db.tools # <<>>
         /\ \A c \in Range(db.tool_categories) : c.id # result.arg.v )
       => (~result.raised /\ result.rows = <<>>)

\* C4: search_tools("") returns nothing, and every row search_tools(q)
\* returns has q, letter case aside, as a literal substring of its name or
\* of its description.
C4_SearchMatchesLiterally ==
    (result.fn = "search_tools" /\ ~result.raised) =>
        /\ result.arg = <<>> => result.rows = <<>>
        /\ \A i \in 1..Len(result.rows) :
              \/ Contains(LowerStr(result.rows[i].name), LowerStr(result.arg))
              \/ Contains(LowerStr(result.rows[i].description),
                          LowerStr(result.arg))

\* The rows of a table as a multiset, the ids aside: how often each
\* (owner, name, description) occurs.
Occurrences(rows, owner, name, description) ==
    Cardinality({ i \in 1..Len(rows) :
                    /\ rows[i].name = name
                    /\ rows[i].description = description
                    /\ owner = (IF "stage_id" \in DOMAIN rows[i]
                                THEN rows[i].stage_id
                                ELSE rows[i].category_id) })

SameMultiset(a, b) ==
    \A r \in Range(a) \cup Range(b) :
        LET owner == IF "stage_id" \in DOMAIN r THEN r.stage_id
                     ELSE r.category_id
        IN  Occurrences(a, owner, r.name, r.description)
              = Occurrences(b, owner, r.name, r.description)

\* C5: import_tool_data run again on a store that is already seeded (it has
\* the tables and rows of the CSV) leaves the multisets of tool_categories
\* and tools rows as they were.
C5_SeedingIdempotent ==
    [][ ( /\ result'.fn = "import_tool_data"
          /\ db.tables
          /\ db.tool_categories # <<>> )
        => /\ SameMultiset(db.tool_categories, db'.tool_categories)
           /\ SameMultiset(db.tools, db'.tools) ]_vars

\* C6: once the database file exists, no step of the application (the five
\* load and search functions, the figure, the four pages, a restart) changes
\* a row of stages, connections, tool_categories or tools.
C6_ReadOnlyAfterInit ==
    [][ DbPath(files) \in files => db' = db ]_vars

\* C6's case: a populated store read again by a later process.
C6_Witness ==
    /\ DbPath(files) \in files
    /\ calls.restarts > 0
    /\ conn = "open"
    /\ result.fn = "load_tools"
    /\ result.rows # <<>>
    /\ db.tool_categories # <<>>

\* C7: with every description and EXAMPLES cell filled in, the import
\* reports no error, and the tool_categories rows are those of the rows that
\* name a stage and a category, in order: a row whose stage or category cell
\* is empty adds nothing and stops nothing.
C7_MissingCellSkippedSilently ==
    ( /\ SeededFromCsv
      /\ \A i \in 1..Len(csv.rows) :
            /\ ~EmptyField(csv.rows[i], ColDescription)
            /\ ~EmptyField(csv.rows[i], ColExamples) )
    => /\ errors = <<>>
       /\ ToolNames(db.tool_categories)
            = [k \in 1..NamedUpTo(Len(csv.rows)) |->
                 Strip(CellText(
                    csv.rows[CHOOSE i \in 1..Len(csv.rows) :
                                /\ NamesStageAndCategory(csv.rows[i])
                                /\ NamedUpTo(i) = k],
                    ColCategory))]

\* Row k is the first row of the CSV with an empty field: the row at which
\* the import raises.
FailsAt(k) ==
    /\ k \in 1..Len(csv.rows)
    /\ HasEmptyField(csv.rows[k])
    /\ \A j \in 1..(k - 1) : ~HasEmptyField(csv.rows[j])

\* The calls of import_tool_data so far: the one of init_database, and the
\* direct ones.
ImportsRun ==
    calls.imports + (IF db.tables /\ CsvPath \in files THEN 1 ELSE 0)

C9_MissingSchemaAborts ==
    (conn = "open" /\ SchemaPath \notin files) =>
        /\ errors = <<"Schema file not found">>
        /\ db = EmptyDb
        /\ DbPath(files) \notin files

\* Stages [Conceptualise, Plan] and the one connection (1 -> 2, normal).
C10_Example(arg) ==
    /\ arg.stages = SchemaStages(2, 1)
    /\ arg.connections = << [from_stage_id |-> 1, to_stage_id |-> 2,
                             connection_type |-> "normal"] >>

PointX(i) == IF i % 2 = 0 THEN -8 ELSE 8

PointY(i) == IF i % 2 = 0 THEN 10 ELSE -10

\* Both endpoint indices of the connection are indices of the n stages.
EndpointsInBounds(connection, n) ==
    /\ connection.from_stage_id - 1 \in 0..(n - 1)
    /\ connection.to_stage_id - 1 \in 0..(n - 1)

\* The line the claim has drawn for a connection.
ExpectedLine(connection) ==
    [mode |-> "lines",
     x |-> <<PointX(connection.from_stage_id - 1),
             PointX(connection.to_stage_id - 1)>>,
     y |-> <<PointY(connection.from_stage_id - 1),
             PointY(connection.to_stage_id - 1)>>,
     dash |-> IF connection.connection_type = "alternative"
              THEN "dash" ELSE "solid"]

\* C11: the call raises nothing, and its line traces are, in order, one per
\* connection whose two endpoint indices (from_stage_id - 1, to_stage_id - 1)
\* are in 0..N-1, joining the points of those two indices, dashed for
\* 'alternative' and solid for 'normal'; a connection with an endpoint id
\* <= 0 or > N draws nothing.
C11_LineIffEndpointsInBounds ==
    result.fn = "create_lifecycle_visualization" =>
        LET n == Len(result.arg.stages)
            drawn == SelectSeq(result.arg.connections,
                               LAMBDA c : EndpointsInBounds(c, n))
        IN  /\ ~result.raised
            /\ SubSeq(result.rows, 1, Len(result.rows) - n)
                 = [k \in 1..Len(drawn) |-> ExpectedLine(drawn[k])]

====
